---- MODULE Spec2Model ----
(***************************************************************************)
(* termidar: the playback/refresh scheduler of the terminal radar          *)
(* (internal/ui Model.Update) together with the frame source that feeds it *)
(* (internal/radar LoadData).  Timers and commands started by Update are   *)
(* modelled as pending messages; time is counted in minutes.               *)
(***************************************************************************)
EXTENDS Integers, Sequences, FiniteSets, TLC

VARIABLES
    state,                \* Model.state
    zipInput,             \* Model.zipInput (value of the text field)
    radar,                \* Model.radar
    currentFrame,         \* Model.currentFrame
    errorMsg,             \* Model.errorMsg
    isPaused,             \* Model.isPaused
    frameRate,            \* Model.frameRate, in milliseconds
    autoRefresh,          \* Model.autoRefresh
    zipCode,              \* Model.zipCode
    animationActive,      \* Model.animationActive
    isBackgroundRefresh,  \* Model.isBackgroundRefresh
    frameTicks,           \* pending FrameTickMsg timers (AnimateFrame)
    refreshTicks,         \* pending RefreshTickMsg timers (ScheduleRefresh)
    loads,                \* running LoadData commands, per (zip, origin)
    pauseMark,            \* history: currentFrame at the last pause, -1 if none
    resumeMark,           \* history: pauseMark at the last resume, -1 if none
    staleTicks,           \* history: pending frame ticks armed before the last Esc
    call,                 \* the library function under study and its arguments
    result                \* what that function returned

vars == <<state, zipInput, radar, currentFrame, errorMsg, isPaused, frameRate,
          autoRefresh, zipCode, animationActive, isBackgroundRefresh,
          frameTicks, refreshTicks, loads, pauseMark, resumeMark, staleTicks,
          call, result>>

\* The functions of internal/radar, internal/weather and internal/geography
\* studied on their own do not touch the Model
pure == <<call, result>>

session == <<state, zipInput, radar, currentFrame, errorMsg, isPaused, frameRate,
             autoRefresh, zipCode, animationActive, isBackgroundRefresh,
             frameTicks, refreshTicks, loads, pauseMark, resumeMark, staleTicks>>

----------------------------------------------------------------------------
(* Program constants *)

StateInput == "Input"
StateLoading == "Loading"
StateDisplaying == "Displaying"
StateError == "Error"

MaxFrames == 20
RadarWidth == 60
RadarHeight == 30
CharLimit == 5
IowaAttempts == 24
InitialFrameRate == 300
MinFrameRate == 100
MaxFrameRate == 2000
FrameRateStep == 100

(* Bounds of the model *)

MaxFrameTicks == 2
MaxRefreshTicks == 2
MaxLoads == 2
MaxManifest == 2
MaxAlerts == 3

(* Texts the user types into the ZIP field, one key at a time *)
TypedInputs ==
    { <<"1", "0", "0", "0", "1">>,
      <<"9", "+", "r", "=", "-">> }

Prefixes == { SubSeq(t, 1, n) : t \in TypedInputs, n \in 0..CharLimit }

LoadTags == [zip : TypedInputs, origin : {"user", "refresh"}]

----------------------------------------------------------------------------
(* Frame source: internal/radar LoadData *)

Frame(ts, product) == [Timestamp |-> ts, Product |-> product]

EmptyData == [Frames |-> <<>>, Location |-> <<>>, IsRealData |-> FALSE]

\* Outcomes of the network calls of one load
PastOK(t) == [Time |-> t, ok |-> TRUE]
PastFail(t) == [Time |-> t, ok |-> FALSE]

EnvGeocodeFail ==
    [geocodeOK |-> FALSE, rvErr |-> TRUE, rvPast |-> <<>>, iowaOK |-> {}, now |-> 1003]
EnvComposite ==
    [geocodeOK |-> TRUE, rvErr |-> FALSE,
     rvPast |-> <<PastOK(980), PastFail(990), PastOK(1000)>>, iowaOK |-> {0, 1}, now |-> 1003]
EnvStation ==
    [geocodeOK |-> TRUE, rvErr |-> TRUE, rvPast |-> <<>>, iowaOK |-> {0, 2, 5}, now |-> 1003]

\* Loads seen by the scheduler, and loads seen by the frame source
Envs == {EnvGeocodeFail, EnvComposite, EnvStation}

\* ... and those in which no provider yields a frame
FetchEnvs ==
    Envs \cup
    { [geocodeOK |-> TRUE, rvErr |-> FALSE,
       rvPast |-> <<PastFail(990), PastFail(1000)>>, iowaOK |-> {}, now |-> 1003],
      [geocodeOK |-> TRUE, rvErr |-> TRUE, rvPast |-> <<>>, iowaOK |-> {},
       now |-> 1003] }

\* Variant: the loops never stop early
FramesFull_Never(frames) == FALSE

\* if len(frames) >= config.MaxFrames { break }
FramesFull(frames) == Len(frames) >= MaxFrames

RECURSIVE RainViewerLoop(_, _, _)
RainViewerLoop(past, i, frames) ==
    IF i > Len(past) THEN frames
    ELSE IF ~past[i].ok THEN RainViewerLoop(past, i + 1, frames)
    ELSE LET fs == Append(frames, Frame(past[i].Time, "Composite"))
         IN IF FramesFull(fs) THEN fs
            ELSE RainViewerLoop(past, i + 1, fs)

fetchFromRainViewer(env) ==
    IF env.rvErr THEN [frames |-> <<>>, err |-> TRUE]
    ELSE [frames |-> RainViewerLoop(env.rvPast, 1, <<>>), err |-> FALSE]

FrameTime(now, i) == LET t == now - i * 5 IN (t \div 5) * 5

RECURSIVE IowaLoop(_, _, _)
IowaLoop(env, i, frames) ==
    IF i >= IowaAttempts THEN frames
    ELSE IF i \notin env.iowaOK THEN IowaLoop(env, i + 1, frames)
    ELSE LET fs == Append(frames, Frame(FrameTime(env.now, i), "N0R"))
         IN IF FramesFull(fs) THEN fs
            ELSE IowaLoop(env, i + 1, fs)

Reverse(s) == [i \in 1..Len(s) |-> s[Len(s) + 1 - i]]

\* Requests sent to the single-station provider by the loop above
RECURSIVE IowaRequests(_, _, _)
IowaRequests(env, i, collected) ==
    IF i >= IowaAttempts THEN 0
    ELSE IF i \notin env.iowaOK THEN 1 + IowaRequests(env, i + 1, collected)
    ELSE IF collected + 1 >= MaxFrames THEN 1
    ELSE 1 + IowaRequests(env, i + 1, collected + 1)

\* Variant: a single composite frame is not enough to skip the fallback
fetchRealRadarData_NeedsTwo(env) ==
    LET rv == fetchFromRainViewer(env)
    IN IF ~rv.err /\ Len(rv.frames) > 1
       THEN [frames |-> rv.frames, isRealData |-> TRUE, err |-> FALSE,
             iowaRequests |-> 0]
       ELSE LET frames == IowaLoop(env, 0, <<>>)
                requests == IowaRequests(env, 0, 0)
            IN IF Len(frames) = 0
               THEN [frames |-> <<>>, isRealData |-> FALSE, err |-> TRUE,
                     iowaRequests |-> requests]
               ELSE [frames |-> Reverse(frames), isRealData |-> TRUE, err |-> FALSE,
                     iowaRequests |-> requests]

fetchRealRadarData(env) ==
    LET rv == fetchFromRainViewer(env)
    IN IF ~rv.err /\ Len(rv.frames) > 0
       THEN [frames |-> rv.frames, isRealData |-> TRUE, err |-> FALSE,
             iowaRequests |-> 0]
       ELSE LET frames == IowaLoop(env, 0, rv.frames)
                requests == IowaRequests(env, 0, 0)
            IN IF Len(frames) = 0
               THEN [frames |-> <<>>, isRealData |-> FALSE, err |-> TRUE,
                     iowaRequests |-> requests]
               ELSE [frames |-> Reverse(frames), isRealData |-> TRUE, err |-> FALSE,
                     iowaRequests |-> requests]

generateRadarFrames(env, count) ==
    [i \in 1..count |-> Frame(env.now + (i - 1) * 10, "")]

LoadedMsgOf(data) == [type |-> "LoadedMsg", Radar |-> data, Err |-> ""]
ErrorMsgOf(text) == [type |-> "ErrorMsg", Radar |-> EmptyData, Err |-> text]

\* Variant: the fetch error is passed on instead of falling back
LoadData_Propagate(zip, env) ==
    IF ~env.geocodeOK THEN ErrorMsgOf("failed to geocode ZIP")
    ELSE LET fetched == fetchRealRadarData(env)
         IN IF fetched.err THEN ErrorMsgOf("no radar data available")
            ELSE LoadedMsgOf([Frames |-> fetched.frames, Location |-> zip,
                              IsRealData |-> fetched.isRealData])

LoadData(zip, env) ==
    IF ~env.geocodeOK THEN ErrorMsgOf("failed to geocode ZIP")
    ELSE LET fetched == fetchRealRadarData(env)
             frames == IF fetched.err THEN generateRadarFrames(env, MaxFrames)
                       ELSE fetched.frames
             isRealData == IF fetched.err THEN FALSE ELSE fetched.isRealData
         IN LoadedMsgOf([Frames |-> frames, Location |-> zip, IsRealData |-> isRealData])

----------------------------------------------------------------------------
(* Commands and timers *)

TotalLoads ==
    LET RECURSIVE Sum(_)
        Sum(S) == IF S = {} THEN 0
                  ELSE LET x == CHOOSE y \in S : TRUE IN loads[x] + Sum(S \ {x})
    IN Sum(LoadTags)

StartLoad(zip, origin) ==
    LET l == [zip |-> zip, origin |-> origin]
    IN [loads EXCEPT ![l] = @ + 1]

FinishLoad(l) == [loads EXCEPT ![l] = @ - 1]

\* Typing a rune into the text field (CharLimit drops the overflow)
InputUpdate(ch) ==
    IF Len(zipInput) < CharLimit THEN Append(zipInput, ch) ELSE zipInput

\* The key can be pressed: outside Input it never reaches the text field
Typable(ch) == state # StateInput \/ InputUpdate(ch) \in Prefixes

\* Update's tail: in Input every key that is not consumed goes to the field
TypeInto(ch) ==
    zipInput' = IF state' = StateInput THEN InputUpdate(ch) ELSE zipInput

ClearMarks == pauseMark' = -1 /\ resumeMark' = -1

NoResult == [done |-> FALSE, value |-> <<>>]

----------------------------------------------------------------------------
(* InitialModel *)

InitialModel ==
    /\ state = StateInput
    /\ zipInput = <<>>
    /\ radar = EmptyData
    /\ currentFrame = 0
    /\ errorMsg = ""
    /\ isPaused = FALSE
    /\ frameRate = InitialFrameRate
    /\ autoRefresh = TRUE
    /\ zipCode = <<>>
    /\ animationActive = FALSE
    /\ isBackgroundRefresh = FALSE
    /\ frameTicks = 0
    /\ refreshTicks = 0
    /\ loads = [l \in LoadTags |-> 0]
    /\ pauseMark = -1
    /\ resumeMark = -1
    /\ staleTicks = 0

Init ==
    /\ InitialModel
    /\ call = [fn |-> "none", arg |-> <<>>]
    /\ result = NoResult

----------------------------------------------------------------------------
(* Model.Update: tea.KeyMsg *)

\* Variant: the frame timer is not armed
AnimateFrame_Dropped == frameTicks

AnimateFrame == frameTicks + 1

\* Variant: the refresh timer is not armed
ScheduleRefresh_Dropped == refreshTicks

ScheduleRefresh == refreshTicks + 1

ResetToInput ==
    /\ state' = StateInput
    /\ radar' = EmptyData
    /\ currentFrame' = 0
    /\ errorMsg' = ""
    /\ zipInput' = <<>>
    /\ animationActive' = FALSE

\* Variant: Esc also leaves Loading
EscGuard_NotInput == state # StateInput

EscGuard == state = StateDisplaying \/ state = StateError

KeyEsc ==
    IF EscGuard
    THEN /\ ResetToInput
         /\ UNCHANGED <<isPaused, frameRate, autoRefresh, zipCode,
                        isBackgroundRefresh, frameTicks, refreshTicks, loads,
                        pauseMark, resumeMark, pure>>
         /\ staleTicks' = frameTicks
    ELSE UNCHANGED vars

SubmitGuard == state = StateInput /\ Len(zipInput) = 5

KeyEnter ==
    IF SubmitGuard
    THEN /\ TotalLoads < MaxLoads
         /\ state' = StateLoading
         /\ zipCode' = zipInput
         /\ loads' = StartLoad(zipInput, "user")
         /\ UNCHANGED <<zipInput, radar, currentFrame, errorMsg, isPaused,
                        frameRate, autoRefresh, animationActive,
                        isBackgroundRefresh, frameTicks, refreshTicks,
                        pauseMark, resumeMark, staleTicks, pure>>
    ELSE UNCHANGED vars

\* Variant: every un-pause arms a tick
ResumeGuard_Always == isPaused

\* !m.isPaused && !m.animationActive, read after the flip of isPaused
ResumeGuard == isPaused /\ ~animationActive

KeySpace ==
    /\ Typable(" ")
    /\ IF state = StateDisplaying
       THEN /\ isPaused' = ~isPaused
            /\ IF ResumeGuard
               THEN /\ frameTicks < MaxFrameTicks
                    /\ animationActive' = TRUE
                    /\ frameTicks' = AnimateFrame
               ELSE UNCHANGED <<animationActive, frameTicks>>
            /\ IF isPaused
               THEN resumeMark' = pauseMark /\ pauseMark' = -1
               ELSE pauseMark' = currentFrame /\ resumeMark' = -1
       ELSE UNCHANGED <<isPaused, animationActive, frameTicks, pauseMark, resumeMark>>
    /\ UNCHANGED <<state, radar, currentFrame, errorMsg, frameRate, autoRefresh,
                   zipCode, isBackgroundRefresh, refreshTicks, loads, staleTicks,
                   pure>>
    /\ TypeInto(" ")

KeyR ==
    /\ Typable("r")
    /\ IF state = StateDisplaying /\ zipCode # <<>>
       THEN /\ TotalLoads < MaxLoads
            /\ animationActive' = FALSE
            /\ state' = StateLoading
            /\ loads' = StartLoad(zipCode, "user")
       ELSE UNCHANGED <<animationActive, state, loads>>
    /\ UNCHANGED <<radar, currentFrame, errorMsg, isPaused, frameRate,
                   autoRefresh, zipCode, isBackgroundRefresh, frameTicks,
                   refreshTicks, pauseMark, resumeMark, staleTicks, pure>>
    /\ TypeInto("r")

NavGuard == state = StateDisplaying /\ Len(radar.Frames) > 0

PrevFrame == (currentFrame - 1 + Len(radar.Frames)) % Len(radar.Frames)

\* Variant: the index stops at the last frame
NextFrame_NoWrap ==
    IF currentFrame + 1 < Len(radar.Frames) THEN currentFrame + 1 ELSE currentFrame

NextFrame == (currentFrame + 1) % Len(radar.Frames)

\* "left" and "right" are cursor keys, "a" and "d" are runes
KeyLeft(k) ==
    /\ k = "a" => Typable(k)
    /\ IF NavGuard
       THEN currentFrame' = PrevFrame /\ ClearMarks
       ELSE UNCHANGED <<currentFrame, pauseMark, resumeMark>>
    /\ UNCHANGED <<state, radar, errorMsg, isPaused, frameRate, autoRefresh,
                   zipCode, animationActive, isBackgroundRefresh, frameTicks,
                   refreshTicks, loads, staleTicks, pure>>
    /\ IF k = "a" THEN TypeInto(k) ELSE UNCHANGED zipInput

KeyRight(k) ==
    /\ k = "d" => Typable(k)
    /\ IF NavGuard
       THEN currentFrame' = NextFrame /\ ClearMarks
       ELSE UNCHANGED <<currentFrame, pauseMark, resumeMark>>
    /\ UNCHANGED <<state, radar, errorMsg, isPaused, frameRate, autoRefresh,
                   zipCode, animationActive, isBackgroundRefresh, frameTicks,
                   refreshTicks, loads, staleTicks, pure>>
    /\ IF k = "d" THEN TypeInto(k) ELSE UNCHANGED zipInput

\* Variant: off-by-one floor test
SpeedUpGuard_Inclusive == frameRate >= MinFrameRate

SpeedUpGuard == frameRate > MinFrameRate

KeySpeedUp(k) ==
    /\ Typable(k)
    /\ frameRate' = IF SpeedUpGuard THEN frameRate - FrameRateStep ELSE frameRate
    /\ UNCHANGED <<state, radar, currentFrame, errorMsg, isPaused, autoRefresh,
                   zipCode, animationActive, isBackgroundRefresh, frameTicks,
                   refreshTicks, loads, pauseMark, resumeMark, staleTicks, pure>>
    /\ TypeInto(k)

SlowDownGuard == frameRate < MaxFrameRate

KeySlowDown(k) ==
    /\ Typable(k)
    /\ frameRate' = IF SlowDownGuard THEN frameRate + FrameRateStep ELSE frameRate
    /\ UNCHANGED <<state, radar, currentFrame, errorMsg, isPaused, autoRefresh,
                   zipCode, animationActive, isBackgroundRefresh, frameTicks,
                   refreshTicks, loads, pauseMark, resumeMark, staleTicks, pure>>
    /\ TypeInto(k)

\* Any other rune: only the text field sees it
OtherRunes == {"0", "1", "9"}

KeyRune(ch) ==
    /\ state = StateInput
    /\ Typable(ch)
    /\ zipInput' = InputUpdate(ch)
    /\ UNCHANGED <<state, radar, currentFrame, errorMsg, isPaused, frameRate,
                   autoRefresh, zipCode, animationActive, isBackgroundRefresh,
                   frameTicks, refreshTicks, loads, pauseMark, resumeMark,
                   staleTicks, pure>>

----------------------------------------------------------------------------
(* Model.Update: radar.LoadedMsg, RefreshTickMsg, FrameTickMsg, ErrorMsg *)

\* Variant: every load handled in Displaying keeps the frame index
BackgroundBranch_AnyDisplaying == state = StateDisplaying

\* "If this is a background refresh, preserve the animation state"
BackgroundBranch == state = StateDisplaying /\ isBackgroundRefresh

HandleLoaded(data) ==
    /\ radar' = data
    /\ IF BackgroundBranch
       THEN /\ isBackgroundRefresh' = FALSE
            /\ UNCHANGED <<state, currentFrame, isPaused, animationActive, frameTicks>>
       ELSE /\ state' = StateDisplaying
            /\ currentFrame' = 0
            /\ isPaused' = FALSE
            /\ IF ~animationActive
               THEN /\ frameTicks < MaxFrameTicks
                    /\ animationActive' = TRUE
                    /\ frameTicks' = AnimateFrame
               ELSE UNCHANGED <<animationActive, frameTicks>>
            /\ UNCHANGED isBackgroundRefresh
    /\ IF autoRefresh /\ ~isBackgroundRefresh'
       THEN /\ refreshTicks < MaxRefreshTicks
            /\ refreshTicks' = ScheduleRefresh
       ELSE UNCHANGED refreshTicks
    /\ UNCHANGED <<zipInput, errorMsg, frameRate, autoRefresh, zipCode>>

LoadedMsg(l, env) ==
    /\ loads[l] > 0
    /\ loads' = FinishLoad(l)
    /\ LoadData(l.zip, env).type = "LoadedMsg"
    /\ HandleLoaded(LoadData(l.zip, env).Radar)
    /\ ClearMarks
    /\ UNCHANGED <<staleTicks, pure>>

\* Variant: the failure text is not stored
HandleError_NoText(text) ==
    /\ state' = StateError
    /\ animationActive' = FALSE
    /\ UNCHANGED <<zipInput, radar, currentFrame, errorMsg, isPaused, frameRate,
                   autoRefresh, zipCode, isBackgroundRefresh, frameTicks,
                   refreshTicks>>

HandleError(text) ==
    /\ state' = StateError
    /\ errorMsg' = text
    /\ animationActive' = FALSE
    /\ UNCHANGED <<zipInput, radar, currentFrame, isPaused, frameRate,
                   autoRefresh, zipCode, isBackgroundRefresh, frameTicks,
                   refreshTicks>>

ErrorMsg(l, env) ==
    /\ loads[l] > 0
    /\ loads' = FinishLoad(l)
    /\ LoadData(l.zip, env).type = "ErrorMsg"
    /\ HandleError(LoadData(l.zip, env).Err)
    /\ ClearMarks
    /\ UNCHANGED <<staleTicks, pure>>

\* Variant: a paused session is not refreshed
RefreshGuard_WhilePlaying ==
    state = StateDisplaying /\ autoRefresh /\ zipCode # <<>> /\ ~isPaused

RefreshGuard == state = StateDisplaying /\ autoRefresh /\ zipCode # <<>>

RefreshTickMsg ==
    /\ refreshTicks > 0
    /\ IF RefreshGuard
       THEN /\ TotalLoads < MaxLoads
            /\ loads' = StartLoad(zipCode, "refresh")
            /\ refreshTicks' = ScheduleRefresh - 1
       ELSE /\ refreshTicks' = refreshTicks - 1
            /\ UNCHANGED loads
    /\ UNCHANGED <<state, zipInput, radar, currentFrame, errorMsg, isPaused,
                   frameRate, autoRefresh, zipCode, animationActive,
                   isBackgroundRefresh, frameTicks, pauseMark, resumeMark,
                   staleTicks, pure>>

\* frameRate is constant between two ticks of a session that is not steered
\* by the speed keys, so the timers expire in the order they were armed: the
\* tick that fires is one armed before the last Esc as long as any is pending
StaleTickFires == staleTicks > 0

\* Variant: the pause flag is not consulted
AdvanceGuard_IgnorePause ==
    state = StateDisplaying /\ animationActive /\ Len(radar.Frames) > 0

AdvanceGuard ==
    state = StateDisplaying /\ animationActive /\ ~isPaused /\ Len(radar.Frames) > 0

FrameTickMsg ==
    /\ frameTicks > 0
    /\ IF AdvanceGuard
       THEN /\ currentFrame' = NextFrame
            /\ frameTicks' = AnimateFrame - 1
            /\ resumeMark' = -1
            /\ UNCHANGED animationActive
       ELSE /\ animationActive' = FALSE
            /\ frameTicks' = frameTicks - 1
            /\ UNCHANGED <<currentFrame, resumeMark>>
    /\ UNCHANGED <<state, zipInput, radar, errorMsg, isPaused, frameRate,
                   autoRefresh, zipCode, isBackgroundRefresh, refreshTicks,
                   loads, pauseMark, pure>>
    /\ staleTicks' = IF StaleTickFires THEN staleTicks - 1 ELSE staleTicks

----------------------------------------------------------------------------

\* frameRate is read only by AnimateFrame, as the period of the timer, which
\* this untimed model does not measure: the speed keys commute with every
\* other handler and are explored in SpecRate.
Next ==
    \/ KeyEsc
    \/ KeyEnter
    \/ KeySpace
    \/ KeyR
    \/ \E k \in {"left", "a"} : KeyLeft(k)
    \/ \E k \in {"right", "d"} : KeyRight(k)
    \/ \E ch \in OtherRunes : KeyRune(ch)
    \/ \E l \in LoadTags, env \in Envs : LoadedMsg(l, env)
    \/ \E l \in LoadTags, env \in Envs : ErrorMsg(l, env)
    \/ RefreshTickMsg
    \/ FrameTickMsg

Spec == Init /\ [][Next]_vars

\* The speed keys, pressed in every state the session goes through
NextRate ==
    \/ \E k \in {"+", "="} : KeySpeedUp(k)
    \/ \E k \in {"-", "_"} : KeySlowDown(k)
    \/ \E ch \in OtherRunes : KeyRune(ch)
    \/ KeyEnter
    \/ KeyEsc
    \/ KeyR
    \/ \E l \in LoadTags, env \in Envs : LoadedMsg(l, env)
    \/ \E l \in LoadTags, env \in Envs : ErrorMsg(l, env)

SpecRate == Init /\ [][NextRate]_vars

\* The frame source under every outcome of its network calls, feeding a
\* session that is not steered by the playback keys
NextLoad ==
    \/ \E ch \in OtherRunes : KeyRune(ch)
    \/ KeyEnter
    \/ KeyEsc
    \/ KeyR
    \/ \E l \in LoadTags, env \in FetchEnvs : LoadedMsg(l, env)
    \/ \E l \in LoadTags, env \in FetchEnvs : ErrorMsg(l, env)
    \/ RefreshTickMsg
    \/ FrameTickMsg

SpecLoad == Init /\ [][NextLoad]_vars

TypeOK ==
    /\ state \in {StateInput, StateLoading, StateDisplaying, StateError}
    /\ zipInput \in Prefixes
    /\ currentFrame \in 0..(MaxFrames - 1)
    /\ frameTicks \in 0..MaxFrameTicks
    /\ refreshTicks \in 0..MaxRefreshTicks
    /\ TotalLoads <= MaxLoads

----------------------------------------------------------------------------
(* Properties of the playback/refresh scheduler *)

LoadCompletes(l, env) == LoadedMsg(l, env) \/ ErrorMsg(l, env)

UserLoad(l) == l.origin = "user"

\* C1: a LoadedMsg of a load started by a refresh tick, handled in
\* Displaying, leaves isPaused as it was and currentFrame as it was (taken
\* modulo the new frame count when the new list is shorter).
C1_BackgroundRefreshKeepsPlayback ==
    [][\A l \in LoadTags, env \in Envs :
         (l.origin = "refresh" /\ state = StateDisplaying /\ LoadedMsg(l, env))
         => /\ isPaused' = isPaused
            /\ currentFrame' = IF currentFrame < Len(radar'.Frames)
                               THEN currentFrame
                               ELSE currentFrame % Len(radar'.Frames)]_vars

\* C2: whenever the session holds frames, currentFrame indexes one of them.
C2_FrameIndexInRange ==
    Len(radar.Frames) > 0 =>
        0 <= currentFrame /\ currentFrame < Len(radar.Frames)

\* the last frame of a list that replaced an earlier one, a load in flight
C2_Witness ==
    /\ state = StateDisplaying
    /\ Len(radar.Frames) = 3
    /\ currentFrame = Len(radar.Frames) - 1
    /\ refreshTicks = 2
    /\ TotalLoads > 0

\* C3: at most one frame-advance tick is pending at any time.
C3_SingleFrameTickChain == frameTicks <= 1

\* C4: a load result handled in Input (after Esc) is discarded: the state
\* stays Input, the session stays empty, errorMsg stays empty and no timer
\* is armed.
C4_StaleResultDiscarded ==
    [][\A l \in LoadTags, env \in Envs :
         (state = StateInput /\ LoadCompletes(l, env))
         => /\ state' = StateInput
            /\ radar' = EmptyData
            /\ errorMsg' = ""
            /\ frameTicks' <= frameTicks
            /\ refreshTicks' <= refreshTicks]_vars

\* C5: once the state is Error, the only step that changes it is Esc, which
\* leads to Input.
C5_ErrorIsTerminal ==
    [][state = StateError =>
         (state' = StateError \/ (KeyEsc /\ state' = StateInput))]_vars

\* C6: while playback is paused at frame k, and after it is resumed until
\* the first advance, currentFrame is k as long as no navigation key and no
\* load completion intervenes; the first advance after the resume leads to
\* (k+1) mod len(frames).
C6_PauseResumeRoundTrip ==
    /\ [](state = StateDisplaying =>
            /\ (isPaused /\ pauseMark # -1) => currentFrame = pauseMark
            /\ (resumeMark # -1) => (currentFrame = resumeMark /\ ~isPaused))
    /\ [][(FrameTickMsg /\ state = StateDisplaying /\ resumeMark # -1)
            => currentFrame' = (resumeMark + 1) % Len(radar.Frames)]_vars

C6_Witness ==
    /\ state = StateDisplaying
    /\ resumeMark > 0
    /\ currentFrame = resumeMark
    /\ frameTicks = 1
    /\ animationActive

\* C7: frameRate stays within [100ms, 2000ms]; every speed key changes it
\* by one 100ms step, except a speed-up at the floor and a slow-down at the
\* ceiling, which leave it unchanged.
C7_FrameRateBounds ==
    /\ [](MinFrameRate <= frameRate /\ frameRate <= MaxFrameRate)
    /\ [][/\ (\E k \in {"+", "="} : KeySpeedUp(k)) =>
                frameRate' = IF frameRate = MinFrameRate THEN frameRate
                             ELSE frameRate - FrameRateStep
          /\ (\E k \in {"-", "_"} : KeySlowDown(k)) =>
                frameRate' = IF frameRate = MaxFrameRate THEN frameRate
                             ELSE frameRate + FrameRateStep
          /\ frameRate' \in {frameRate, frameRate - FrameRateStep,
                             frameRate + FrameRateStep}]_vars

C7_Witness ==
    /\ frameRate = MinFrameRate
    /\ state = StateError

\* A load in which geocoding succeeds and neither provider yields a frame
TotalFailure(env) ==
    /\ env.geocodeOK
    /\ env.rvErr \/ \A i \in 1..Len(env.rvPast) : ~env.rvPast[i].ok
    /\ env.iowaOK \cap 0..(IowaAttempts - 1) = {}

\* C8: a load whose providers all yield no frame completes with a LoadedMsg
\* carrying IsRealData = false and exactly MaxFrames synthetic frames, and
\* the session is Displaying after it.
C8_TotalFailureIsSynthetic ==
    [][\A l \in LoadTags, env \in FetchEnvs :
         (TotalFailure(env) /\ LoadCompletes(l, env))
         => /\ LoadedMsg(l, env)
            /\ state' = StateDisplaying
            /\ ~radar'.IsRealData
            /\ Len(radar'.Frames) = MaxFrames
            /\ \A i \in 1..Len(radar'.Frames) : radar'.Frames[i].Product = ""]_vars

C8_Witness ==
    /\ state = StateDisplaying
    /\ ~radar.IsRealData
    /\ Len(radar.Frames) = MaxFrames
    /\ radar.Frames[1].Product = ""

\* C9: an ErrorMsg of a load started by a refresh tick, handled in
\* Displaying, leaves the state Displaying and the session, currentFrame,
\* isPaused and animationActive unchanged, with a refresh tick still armed.
C9_FailedBackgroundRefreshIsSilent ==
    [][\A l \in LoadTags, env \in Envs :
         (l.origin = "refresh" /\ state = StateDisplaying /\ ErrorMsg(l, env))
         => /\ state' = StateDisplaying
            /\ UNCHANGED <<radar, currentFrame, isPaused, animationActive>>
            /\ refreshTicks' > 0]_vars

\* C10: a LoadedMsg of a submitted or manually refreshed load handled in
\* Loading yields Displaying at frame 0, not paused, with the loaded session,
\* and arms a frame tick exactly when animationActive was false; an ErrorMsg
\* yields Error with the failure text and animationActive false.
C10_LoadCompletionInLoading ==
    [][\A l \in LoadTags, env \in Envs :
         /\ (UserLoad(l) /\ state = StateLoading /\ LoadedMsg(l, env))
            => /\ state' = StateDisplaying
               /\ currentFrame' = 0
               /\ ~isPaused'
               /\ radar' = LoadData(l.zip, env).Radar
               /\ animationActive'
               /\ frameTicks' = IF animationActive THEN frameTicks
                                ELSE frameTicks + 1
         /\ (UserLoad(l) /\ state = StateLoading /\ ErrorMsg(l, env))
            => /\ state' = StateError
               /\ errorMsg' = "failed to geocode ZIP"
               /\ ~animationActive']_vars

C10_Witness ==
    /\ state = StateDisplaying
    /\ currentFrame = 0
    /\ ~isPaused
    /\ animationActive
    /\ frameTicks = 1
    /\ refreshTicks = 2
    /\ radar.Location = zipCode

\* C11: Esc in Displaying or Error leads to Input with an empty session,
\* currentFrame 0, animationActive false and errorMsg empty, and arms no
\* frame tick; a frame tick pending since before the Esc does not advance
\* the frame and is not re-armed when it fires.
C11_EscCancelsPlayback ==
    /\ [][(KeyEsc /\ (state = StateDisplaying \/ state = StateError))
            => /\ state' = StateInput
               /\ radar' = EmptyData
               /\ currentFrame' = 0
               /\ ~animationActive'
               /\ errorMsg' = ""
               /\ frameTicks' = frameTicks]_vars
    /\ [][(FrameTickMsg /\ StaleTickFires)
            => /\ currentFrame' = currentFrame
               /\ frameTicks' = frameTicks - 1]_vars

\* C12: r in Displaying with a stored ZIP leads to Loading and starts a
\* load; a refresh tick handled in Displaying starts a load and leaves the
\* state Displaying and currentFrame, isPaused and animationActive as they
\* were; no refresh tick changes the state.
C12_RefreshTickStaysDisplaying ==
    [][/\ (KeyR /\ state = StateDisplaying /\ zipCode # <<>>)
            => /\ state' = StateLoading
               /\ loads' = StartLoad(zipCode, "user")
       /\ (RefreshTickMsg /\ state = StateDisplaying)
            => /\ state' = StateDisplaying
               /\ loads' = StartLoad(zipCode, "refresh")
               /\ UNCHANGED <<currentFrame, isPaused, animationActive>>
       /\ RefreshTickMsg => state' = state]_vars

\* a background load running behind a paused session
C12_Witness ==
    /\ state = StateDisplaying
    /\ isPaused
    /\ currentFrame > 0
    /\ \E z \in TypedInputs : loads[[zip |-> z, origin |-> "refresh"]] > 0

\* C13: Enter in Input leads to Loading and starts a load exactly when the
\* field holds 5 digits; with fewer characters or with 5 characters that are
\* not all digits, and in every other state, it changes nothing.
C13_SubmitNeedsFiveDigits ==
    [][KeyEnter
         => IF /\ state = StateInput
               /\ Len(zipInput) = 5
               /\ \A i \in 1..Len(zipInput) :
                     zipInput[i] \in {"0", "1", "2", "3", "4", "5", "6", "7", "8", "9"}
            THEN state' = StateLoading /\ loads' = StartLoad(zipInput, "user")
            ELSE UNCHANGED <<state, loads, errorMsg>>]_vars

----------------------------------------------------------------------------
(* The frame source on its own: fetchRealRadarData and LoadData under every *)
(* outcome of the provider requests                                         *)

ManifestTimes == {980, 990, 1000}

\* radar.past of the composite provider's manifest, in the order received
Manifests ==
    UNION {[1..n -> ({PastOK(t) : t \in ManifestTimes}
                        \cup {PastFail(t) : t \in ManifestTimes})] :
              n \in 0..MaxManifest}

\* Attempts of the single-station loop that yield an image
IowaOutcomes == (SUBSET {0, 1, IowaAttempts - 1}) \cup {0..(IowaAttempts - 1)}

ProviderEnvs ==
    [geocodeOK : {TRUE}, rvErr : BOOLEAN, rvPast : Manifests,
     iowaOK : IowaOutcomes, now : {1003}]

\* Manifests with more entries than a frame list may hold
LongEnvs ==
    [geocodeOK : {TRUE}, rvErr : {FALSE},
     rvPast : { [i \in 1..(MaxFrames + 2) |-> PastOK(800 + i)],
                [i \in 1..(MaxFrames + 2) |->
                    IF i = 3 THEN PastFail(800 + i) ELSE PastOK(800 + i)] },
     iowaOK : {{}}, now : {1003}]

InitFetch ==
    /\ InitialModel
    /\ call \in [fn : {"fetchRealRadarData"}, arg : ProviderEnvs]
                   \cup [fn : {"LoadData"},
                         arg : ProviderEnvs \cup LongEnvs \cup {EnvGeocodeFail}]
    /\ result = NoResult

FetchReturns ==
    /\ call.fn = "fetchRealRadarData"
    /\ ~result.done
    /\ result' = [done |-> TRUE, value |-> fetchRealRadarData(call.arg)]
    /\ UNCHANGED <<session, call>>

LoadReturns ==
    /\ call.fn = "LoadData"
    /\ ~result.done
    /\ result' = [done |-> TRUE,
                  value |-> LoadData(<<"1", "0", "0", "0", "1">>, call.arg)]
    /\ UNCHANGED <<session, call>>

NextFetch == FetchReturns \/ LoadReturns

SpecFetch == InitFetch /\ [][NextFetch]_vars

Ordered(frames) ==
    \A i \in 1..(Len(frames) - 1) : frames[i].Timestamp <= frames[i + 1].Timestamp

ReturnedFrames ==
    IF call.fn = "LoadData" THEN result.value.Radar.Frames ELSE result.value.frames

\* C14: every frame list the frame source returns is ordered oldest first:
\* the composite list whatever the order of the manifest, the single-station
\* list whichever attempts were skipped, and the synthetic list.
C14_FramesOldestFirst ==
    (result.done /\ call.fn \in {"fetchRealRadarData", "LoadData"})
        => Ordered(ReturnedFrames)

\* The manifest entries whose tile was fetched and decoded
CompositeYield(env) ==
    IF env.rvErr THEN <<>> ELSE SelectSeq(env.rvPast, LAMBDA p : p.ok)

\* C15: when the composite provider yields at least one frame,
\* fetchRealRadarData returns exactly those frames, all "Composite", with
\* isRealData = true and without a request to the single-station provider;
\* that provider is queried only when the composite one failed or yielded
\* no frame.
C15_CompositeShortCircuits ==
    (result.done /\ call.fn = "fetchRealRadarData")
        => LET yield == CompositeYield(call.arg)
               v == result.value
           IN /\ Len(yield) >= 1 =>
                    /\ v.frames = [i \in 1..Len(yield) |->
                                      Frame(yield[i].Time, "Composite")]
                    /\ v.isRealData
                    /\ ~v.err
                    /\ v.iowaRequests = 0
              /\ v.iowaRequests > 0 => Len(yield) = 0

\* one of two tiles failed while the single station would have answered
C15_Witness ==
    /\ result.done
    /\ call.fn = "fetchRealRadarData"
    /\ Len(call.arg.rvPast) = 2
    /\ Len(result.value.frames) = 1
    /\ result.value.frames[1].Product = "Composite"
    /\ call.arg.iowaOK = {0, 1, IowaAttempts - 1}
    /\ result.value.iowaRequests = 0

----------------------------------------------------------------------------
(* Intensity grids: imageToRadarData and the grids of generateRadarFrames   *)

Rows == 0..(RadarHeight - 1)
Cols == 0..(RadarWidth - 1)

\* c.RGBA() of a pixel of a decoded PNG with 8-bit channels R, G, B, A:
\* 16-bit values, the colours multiplied by alpha
NRGBA(R, G, B, A) ==
    [r |-> (R * 257 * A) \div 255,
     g |-> (G * 257 * A) \div 255,
     b |-> (B * 257 * A) \div 255,
     a |-> A * 257]

OpaquePixels ==
    {NRGBA(R, G, B, 255) :
        R \in {0, 100, 101, 149, 150, 200, 201, 228, 250, 255},
        G \in {0, 99, 100, 101, 149, 150, 151, 200, 250, 255},
        B \in {0, 49, 50, 99, 100, 150, 151, 255}}

TranslucentPixels ==
    {NRGBA(t[1], t[2], t[3], A) :
        t \in {<<255, 255, 0>>, <<255, 0, 0>>, <<0, 255, 0>>, <<0, 0, 255>>,
               <<255, 200, 0>>, <<255, 255, 255>>},
        A \in {0, 1, 101, 120, 127, 128, 200}}

\* An image of one pixel, and the 2 x 2 images over four kinds of pixel
Image1(p) == [width |-> 1, height |-> 1, At |-> [c \in {<<0, 0>>} |-> p]]

TilePixels ==
    {NRGBA(0, 0, 0, 0), NRGBA(255, 0, 0, 255), NRGBA(0, 255, 0, 255),
     NRGBA(255, 255, 0, 120)}

Images2 ==
    {[width |-> 2, height |-> 2, At |-> f] :
        f \in [(0..1) \X (0..1) -> TilePixels]}

Images == {Image1(p) : p \in OpaquePixels \cup TranslucentPixels} \cup Images2

Uint8(v) == v % 256

\* Variant: values are stored as computed
Clamp_Off(v) == v

Clamp(v) == IF v > 10 THEN 10 ELSE IF v < 0 THEN 0 ELSE v

\* Variant: the yellowish rule is tried first
Classify_YellowFirst(r8, g8, b8) ==
    IF r8 > 100 /\ g8 > 100 /\ b8 < 50 THEN 4
    ELSE IF r8 > 200 /\ g8 < 100 /\ b8 < 100 THEN 8 + Uint8(r8 - 200) \div 28
    ELSE IF r8 > 200 /\ g8 > 150 /\ b8 < 100 THEN 5 + Uint8(r8 - 200) \div 50
    ELSE IF g8 > 150 /\ r8 < 150 /\ b8 < 100 THEN 1 + Uint8(g8 - 150) \div 50
    ELSE IF b8 > 150 /\ r8 < 100 /\ g8 < 150 THEN 1
    ELSE 0

Classify(r8, g8, b8) ==
    IF r8 > 200 /\ g8 < 100 /\ b8 < 100 THEN 8 + Uint8(r8 - 200) \div 28
    ELSE IF r8 > 200 /\ g8 > 150 /\ b8 < 100 THEN 5 + Uint8(r8 - 200) \div 50
    ELSE IF g8 > 150 /\ r8 < 150 /\ b8 < 100 THEN 1 + Uint8(g8 - 150) \div 50
    ELSE IF b8 > 150 /\ r8 < 100 /\ g8 < 150 THEN 1
    ELSE IF r8 > 100 /\ g8 > 100 /\ b8 < 50 THEN 4
    ELSE 0

\* One iteration of the loop body: a is compared as c.RGBA() returns it
PixelIntensity(c) ==
    IF c.a < 128 THEN 0
    ELSE Clamp(Classify(Uint8(c.r \div 256), Uint8(c.g \div 256), Uint8(c.b \div 256)))

\* The source pixel of target cell (x, y)
Sampled(img, x, y) ==
    img.At[<<(x * img.width) \div RadarWidth, (y * img.height) \div RadarHeight>>]

imageToRadarData(img) ==
    [y \in Rows |-> [x \in Cols |-> PixelIntensity(Sampled(img, x, y))]]

\* int(math.Sqrt(float64(n)))
ISqrt(n) == CHOOSE k \in 0..n : k * k <= n /\ n < (k + 1) * (k + 1)

CenterX(i, c) == 10 + ((i * 3 + c * 15) % RadarWidth)
CenterY(i, c) == 5 + ((i * 2 + c * 10) % RadarHeight)
NumCells(i) == 2 + (i % 3)

\* Storm cell c of synthetic frame i, written over data
StormCell(data, i, c) ==
    [y \in Rows |-> [x \in Cols |->
        LET dx == x - CenterX(i, c)
            dy == y - CenterY(i, c)
        IN IF dx \in -5..5 /\ dy \in -5..5 /\ dx * dx + dy * dy < 25
           THEN Clamp((5 + c * 2) - ISqrt(dx * dx + dy * dy))
           ELSE data[y][x]]]

RECURSIVE StormCells(_, _, _)
StormCells(data, i, c) ==
    IF c >= NumCells(i) THEN data
    ELSE StormCells(StormCell(data, i, c), i, c + 1)

\* Frame.Data of frames[i] in generateRadarFrames
SyntheticGrid(i) == StormCells([y \in Rows |-> [x \in Cols |-> 0]], i, 0)

InitGrid ==
    /\ InitialModel
    /\ call \in [fn : {"imageToRadarData"}, arg : Images]
                   \cup [fn : {"generateRadarFrames"}, arg : 0..(MaxFrames - 1)]
    /\ result = NoResult

ImageConverted ==
    /\ call.fn = "imageToRadarData"
    /\ ~result.done
    /\ result' = [done |-> TRUE, value |-> imageToRadarData(call.arg)]
    /\ UNCHANGED <<session, call>>

FrameGenerated ==
    /\ call.fn = "generateRadarFrames"
    /\ ~result.done
    /\ result' = [done |-> TRUE, value |-> SyntheticGrid(call.arg)]
    /\ UNCHANGED <<session, call>>

NextGrid == ImageConverted \/ FrameGenerated

SpecGrid == InitGrid /\ [][NextGrid]_vars

\* The 8-bit channel of a 16-bit colour value
High8(v) == v \div 256

\* C16: a target cell whose source pixel has alpha below 128 (of 255) is
\* left at 0 by imageToRadarData, whatever the colour of the pixel.
C16_TransparentIsZero ==
    (result.done /\ call.fn = "imageToRadarData")
        => \A y \in Rows, x \in Cols :
              High8(Sampled(call.arg, x, y).a) < 128 => result.value[y][x] = 0

\* The classification rules on 8-bit components, in plain integers
RuleIntensity(R, G, B) ==
    IF R > 200 /\ G < 100 /\ B < 100 THEN 8 + (R - 200) \div 28
    ELSE IF R > 200 /\ G > 150 /\ B < 100 THEN 5 + (R - 200) \div 50
    ELSE IF G > 150 /\ R < 150 /\ B < 100 THEN 1 + (G - 150) \div 50
    ELSE IF B > 150 /\ R < 100 /\ G < 150 THEN 1
    ELSE IF R > 100 /\ G > 100 /\ B < 50 THEN 4
    ELSE 0

\* No storm cell of synthetic frame i reaches (x, y)
OutOfReach(i, x, y) ==
    \A c \in 0..(NumCells(i) - 1) :
        (x - CenterX(i, c)) * (x - CenterX(i, c))
            + (y - CenterY(i, c)) * (y - CenterY(i, c)) >= 25

\* C17: every grid of a frame, from imageToRadarData or from the synthetic
\* generator, has RadarHeight rows of RadarWidth cells with values in 0..10;
\* a cell whose pixel matches no rule, or that no storm cell reaches, is 0.
C17_GridShapeAndRange ==
    (result.done /\ call.fn \in {"imageToRadarData", "generateRadarFrames"})
        => /\ DOMAIN result.value = Rows
           /\ \A y \in Rows :
                 /\ DOMAIN result.value[y] = Cols
                 /\ \A x \in Cols : result.value[y][x] \in 0..10
           /\ call.fn = "imageToRadarData" =>
                 \A y \in Rows, x \in Cols :
                    LET c == Sampled(call.arg, x, y)
                    IN RuleIntensity(High8(c.r), High8(c.g), High8(c.b)) = 0
                          => result.value[y][x] = 0
           /\ call.fn = "generateRadarFrames" =>
                 \A y \in Rows, x \in Cols :
                    OutOfReach(call.arg, x, y) => result.value[y][x] = 0

\* a synthetic frame whose strongest storm cell lies on the grid
C17_Witness ==
    /\ result.done
    /\ call.fn = "generateRadarFrames"
    /\ NumCells(call.arg) = 4
    /\ \E y \in Rows, x \in Cols : result.value[y][x] = 10
    /\ result.value[0][0] = 0

----------------------------------------------------------------------------
(* Alerts: internal/weather GetAlertDisplay                                 *)

\* Alert.Event as the sequence of its words; Alert.Severity over the
\* vocabulary of the alert service and a value outside it
Alerts ==
    [Event : {<<"Tornado", "Warning">>, <<"Special", "Weather", "Statement">>},
     Severity : {"Extreme", "Severe", "Moderate", "Minor", "Unknown", "Catastrophic"}]

\* The zero value of Alert
NoAlert == [Event |-> <<>>, Severity |-> ""]

\* severityRank[...]: a key that is not in the map reads as 0
severityRank(severity) ==
    CASE severity = "Extreme" -> 4
      [] severity = "Severe" -> 3
      [] severity = "Moderate" -> 2
      [] severity = "Minor" -> 1
      [] severity = "Unknown" -> 0
      [] OTHER -> 0

\* Variant: an alert of equal rank replaces the one found so far
Outranks_OrEqual(rank, maxSeverity) == rank >= maxSeverity

Outranks(rank, maxSeverity) == rank > maxSeverity

RECURSIVE MostSevereLoop(_, _, _, _)
MostSevereLoop(alerts, i, maxSeverity, mostSevere) ==
    IF i > Len(alerts) THEN mostSevere
    ELSE LET rank == severityRank(alerts[i].Severity)
         IN IF Outranks(rank, maxSeverity)
            THEN MostSevereLoop(alerts, i + 1, rank, alerts[i])
            ELSE MostSevereLoop(alerts, i + 1, maxSeverity, mostSevere)

\* strings.ToLower, word by word
LowerWord(w) ==
    CASE w = "Tornado" -> "tornado"
      [] w = "Warning" -> "warning"
      [] w = "Special" -> "special"
      [] w = "Weather" -> "weather"
      [] w = "Statement" -> "statement"
      [] OTHER -> w

ToLower(event) == [i \in 1..Len(event) |-> LowerWord(event[i])]

\* strings.Contains for a key made of whole words
Contains(event, key) ==
    \E i \in 1..(Len(event) - Len(key) + 1) :
        SubSeq(event, i, i + Len(key) - 1) = key

getAlertType(event) ==
    IF Contains(event, <<"Warning">>) THEN "WARNING"
    ELSE IF Contains(event, <<"Watch">>) THEN "WATCH"
    ELSE IF Contains(event, <<"Advisory">>) THEN "ADVISORY"
    ELSE "ALERT"

\* The switch on the chosen alert; text is the sequence of its words
AlertDisplayOf(mostSevere) ==
    LET event == ToLower(mostSevere.Event)
        type == getAlertType(mostSevere.Event)
    IN IF Contains(event, <<"tornado">>)
       THEN [emoji |-> "tornado", color |-> "196", text |-> <<"TORNADO", type>>]
       ELSE IF Contains(event, <<"severe", "thunderstorm">>)
       THEN [emoji |-> "thunderstorm", color |-> "208",
             text |-> <<"SEVERE", "T-STORM", type>>]
       ELSE IF Contains(event, <<"flood">>)
       THEN [emoji |-> "wave", color |-> "33", text |-> <<"FLOOD", type>>]
       ELSE IF \/ Contains(event, <<"winter">>)
               \/ Contains(event, <<"snow">>)
               \/ Contains(event, <<"blizzard">>)
       THEN [emoji |-> "snowflake", color |-> "51", text |-> <<type>>]
       ELSE IF Contains(event, <<"heat">>)
       THEN [emoji |-> "fire", color |-> "202", text |-> <<"HEAT", type>>]
       ELSE IF Contains(event, <<"wind">>)
       THEN [emoji |-> "wind", color |-> "226", text |-> <<"WIND", type>>]
       ELSE [emoji |-> "warning",
             color |-> IF mostSevere.Severity = "Extreme" THEN "196"
                       ELSE IF mostSevere.Severity = "Severe" THEN "208"
                       ELSE "226",
             text |-> <<type>>]

NoDisplay == [emoji |-> "", color |-> "", text |-> <<>>]

GetAlertDisplay(alerts) ==
    IF Len(alerts) = 0 THEN NoDisplay
    ELSE AlertDisplayOf(MostSevereLoop(alerts, 1, -1, NoAlert))

InitAlert ==
    /\ InitialModel
    /\ call \in [fn : {"GetAlertDisplay"},
                 arg : UNION {[1..n -> Alerts] : n \in 0..MaxAlerts}]
    /\ result = NoResult

AlertDisplayed ==
    /\ call.fn = "GetAlertDisplay"
    /\ ~result.done
    /\ result' = [done |-> TRUE, value |-> GetAlertDisplay(call.arg)]
    /\ UNCHANGED <<session, call>>

NextAlert == AlertDisplayed

SpecAlert == InitAlert /\ [][NextAlert]_vars

\* Extreme > Severe > Moderate > Minor > Unknown, anything else with Unknown
SeverityLevel(severity) ==
    IF severity = "Extreme" THEN 4
    ELSE IF severity = "Severe" THEN 3
    ELSE IF severity = "Moderate" THEN 2
    ELSE IF severity = "Minor" THEN 1
    ELSE 0

\* The first alert of the list that no alert of the list exceeds
FirstHighest(alerts) ==
    CHOOSE i \in 1..Len(alerts) :
        /\ \A j \in 1..Len(alerts) :
              SeverityLevel(alerts[j].Severity) <= SeverityLevel(alerts[i].Severity)
        /\ \A j \in 1..(i - 1) :
              SeverityLevel(alerts[j].Severity) < SeverityLevel(alerts[i].Severity)

\* C19: GetAlertDisplay shows the alert of highest severity, the first of
\* the list among equals, a severity outside the vocabulary ranking with
\* Unknown; an empty list shows nothing.
C19_MostSevereAlertShown ==
    (result.done /\ call.fn = "GetAlertDisplay")
        => result.value = IF Len(call.arg) = 0 THEN NoDisplay
                          ELSE AlertDisplayOf(call.arg[FirstHighest(call.arg)])

\* Minor, Severe, Moderate: the Severe one is shown
C19_Witness ==
    /\ result.done
    /\ call.fn = "GetAlertDisplay"
    /\ Len(call.arg) = 3
    /\ call.arg[1] = [Event |-> <<"Special", "Weather", "Statement">>, Severity |-> "Minor"]
    /\ call.arg[2] = [Event |-> <<"Tornado", "Warning">>, Severity |-> "Severe"]
    /\ call.arg[3] = [Event |-> <<"Special", "Weather", "Statement">>, Severity |-> "Moderate"]
    /\ result.value.text = <<"TORNADO", "WARNING">>

----------------------------------------------------------------------------
(* Overlay: internal/geography DrawGeographicBoundaries.  display[y][x] is   *)
(* a glyph; the box-drawing and symbol glyphs are written "|", "-", "~",    *)
(* "^", "%" (the wave of coasts and lakes) and "*" (the star), styles are *)
(* left out.  The tables of borders, rivers, mountains, coasts and lakes    *)
(* enter as the display coordinates latLonToDisplay gives them for the      *)
(* geocoded location.                                                       *)

Blank == " "

BlankDisplay == [y \in Rows |-> [x \in Cols |-> Blank]]

\* A display on which something was drawn before the call
DottedDisplay ==
    [y \in Rows |-> [x \in Cols |-> IF (x + y) % 3 = 0 THEN "." ELSE Blank]]

max(a, b) == IF a > b THEN a ELSE b

min(a, b) == IF a < b THEN a ELSE b

abs(a) == IF a < 0 THEN -a ELSE a

inBounds(x, y) == y >= 0 /\ y < RadarHeight /\ x >= 0 /\ x < RadarWidth

safeDrawPoint(display, x, y, char) ==
    IF inBounds(x, y) THEN [display EXCEPT ![y][x] = char] ELSE display

\* The points of a line are visited once each, so the loops of drawLine
\* are written as one pass over the grid: a point is skipped when
\* skipExisting is set and its cell is not blank, and drawn otherwise
\* Variant: skipExisting is not consulted
LinePoints_Overwrite(display, points, char, skipExisting) ==
    [y \in Rows |-> [x \in Cols |->
        IF <<x, y>> \in points /\ inBounds(x, y) THEN char ELSE display[y][x]]]

LinePoints(display, points, char, skipExisting) ==
    [y \in Rows |-> [x \in Cols |->
        IF /\ <<x, y>> \in points
           /\ inBounds(x, y)
           /\ ~(skipExisting /\ display[y][x] # Blank)
        THEN char
        ELSE display[y][x]]]

VerticalLine(display, x, y1, y2, char, skipExisting) ==
    LinePoints(display, {<<x, y>> : y \in y1..y2}, char, skipExisting)

HorizontalLine(display, x1, x2, y, char, skipExisting) ==
    LinePoints(display, {<<x, y>> : x \in x1..x2}, char, skipExisting)

\* The diagonal loop; p holds x, y, err of the iteration and q the rest
RECURSIVE DiagonalPoints(_, _)
DiagonalPoints(p, q) ==
    LET e2 == 2 * p.err
        stepX == e2 > -q.dy
        err1 == IF stepX THEN p.err - q.dy ELSE p.err
        stepY == e2 < q.dx
    IN IF p.x = q.x2 /\ p.y = q.y2 THEN {<<p.x, p.y>>}
       ELSE {<<p.x, p.y>>}
            \cup DiagonalPoints([x |-> IF stepX THEN p.x + q.sx ELSE p.x,
                                 y |-> IF stepY THEN p.y + q.sy ELSE p.y,
                                 err |-> IF stepY THEN err1 + q.dx ELSE err1],
                                q)

DiagonalLine(display, p, q, char, skipExisting) ==
    LinePoints(display, DiagonalPoints(p, q), char, skipExisting)

drawLine(display, ax, ay, bx, by, char, skipExisting) ==
    IF \/ (ax < 0 /\ bx < 0) \/ (ax >= RadarWidth /\ bx >= RadarWidth)
       \/ (ay < 0 /\ by < 0) \/ (ay >= RadarHeight /\ by >= RadarHeight)
    THEN display
    ELSE LET x1 == max(0, min(RadarWidth - 1, ax))
             x2 == max(0, min(RadarWidth - 1, bx))
             y1 == max(0, min(RadarHeight - 1, ay))
             y2 == max(0, min(RadarHeight - 1, by))
         IN IF x1 = x2
            THEN VerticalLine(display, x1, min(y1, y2), max(y1, y2), char, skipExisting)
            ELSE IF y1 = y2
            THEN HorizontalLine(display, min(x1, x2), max(x1, x2), y1, char, skipExisting)
            ELSE DiagonalLine(display,
                              [x |-> x1, y |-> y1, err |-> abs(x2 - x1) - abs(y2 - y1)],
                              [x2 |-> x2, y2 |-> y2,
                               dx |-> abs(x2 - x1), dy |-> abs(y2 - y1),
                               sx |-> IF x1 > x2 THEN -1 ELSE 1,
                               sy |-> IF y1 > y2 THEN -1 ELSE 1],
                              char, skipExisting)

RECURSIVE DrawBorders(_, _, _)
DrawBorders(display, borders, i) ==
    IF i > Len(borders) THEN display
    ELSE LET b == borders[i]
             char == IF abs(b[1] - b[3]) < abs(b[2] - b[4]) THEN "|" ELSE "-"
         IN DrawBorders(drawLine(display, b[1], b[2], b[3], b[4], char, FALSE),
                        borders, i + 1)

RECURSIVE DrawLabel(_, _, _)
DrawLabel(display, stateLabel, i) ==
    IF i > Len(stateLabel.label) THEN display
    ELSE DrawLabel(safeDrawPoint(display, stateLabel.x + i - 1, stateLabel.y,
                                 stateLabel.label[i]),
                   stateLabel, i + 1)

RECURSIVE DrawLabels(_, _, _)
DrawLabels(display, stateLabels, i) ==
    IF i > Len(stateLabels) THEN display
    ELSE LET stateLabel == stateLabels[i]
         IN DrawLabels(IF /\ inBounds(stateLabel.x, stateLabel.y)
                          /\ stateLabel.x + Len(stateLabel.label) - 1 < RadarWidth
                       THEN DrawLabel(display, stateLabel, 1)
                       ELSE display,
                       stateLabels, i + 1)

drawStateBorders(display, geo) ==
    DrawLabels(DrawBorders(display, geo.borders, 1), geo.labels, 1)

\* A feature that yields to what is already drawn
DrawIfBlank(display, x, y, char) ==
    IF inBounds(x, y) /\ display[y][x] = Blank
    THEN [display EXCEPT ![y][x] = char]
    ELSE display

\* int(float64(a) + t*float64(b-a)) with t = j/steps, in exact arithmetic
Interpolate(a, b, j, steps) ==
    LET n == a * steps + j * (b - a)
    IN IF n >= 0 THEN n \div steps ELSE -((-n) \div steps)

\* The cells of one segment, each drawn only where the display is blank
DrawSegment(display, from, to, steps, char) ==
    LET points == {<<Interpolate(from[1], to[1], j, steps),
                     Interpolate(from[2], to[2], j, steps)>> : j \in 0..steps}
    IN [y \in Rows |-> [x \in Cols |->
          IF <<x, y>> \in points /\ display[y][x] = Blank THEN char
          ELSE display[y][x]]]

RECURSIVE DrawPath(_, _, _, _)
DrawPath(display, path, i, char) ==
    IF i > Len(path) - 1 THEN display
    ELSE LET steps == max(abs(path[i + 1][1] - path[i][1]),
                          abs(path[i + 1][2] - path[i][2]))
         IN DrawPath(IF steps > 0
                     THEN DrawSegment(display, path[i], path[i + 1], steps, char)
                     ELSE display,
                     path, i + 1, char)

\* Rivers ("~") and coastlines ("%"): lists of paths
RECURSIVE DrawPaths(_, _, _, _)
DrawPaths(display, paths, i, char) ==
    IF i > Len(paths) THEN display
    ELSE DrawPaths(DrawPath(display, paths[i], 1, char), paths, i + 1, char)

RECURSIVE DrawMountains(_, _, _)
DrawMountains(display, points, i) ==
    IF i > Len(points) THEN display
    ELSE LET x == points[i][1]
             y == points[i][2]
         IN DrawMountains(
                DrawIfBlank(DrawIfBlank(DrawIfBlank(display, x, y, "^"),
                                        x - 1, y, "^"),
                            x + 1, y, "^"),
                points, i + 1)

RECURSIVE DrawLakes(_, _, _)
DrawLakes(display, points, i) ==
    IF i > Len(points) THEN display
    ELSE DrawLakes(safeDrawPoint(display, points[i][1], points[i][2], "%"),
                   points, i + 1)

\* Variant: the marker yields to what is already drawn
CityMarker_IfBlank(display, centerX, centerY) ==
    DrawIfBlank(display, centerX, centerY, "*")

\* "Add city marker for the center (on top of everything)"
CityMarker(display, centerX, centerY) ==
    IF centerY >= 0 /\ centerY < RadarHeight /\ centerX >= 0 /\ centerX < RadarWidth
    THEN [display EXCEPT ![centerY][centerX] = "*"]
    ELSE display

DrawGeographicBoundaries(display, centerX, centerY, geo) ==
    IF ~geo.ok THEN CityMarker(display, centerX, centerY)
    ELSE LET bordered == drawStateBorders(display, geo)
             rivers == DrawPaths(bordered, geo.rivers, 1, "~")
             mountains == DrawMountains(rivers, geo.mountains, 1)
             coasts == DrawPaths(mountains, geo.coasts, 1, "%")
             lakes == DrawLakes(coasts, geo.lakes, 1)
         IN CityMarker(lakes, centerX, centerY)

\* Features around the centre of the grid, in display coordinates
Geographies ==
    [ok : {TRUE},
     borders : { <<>>,
                 << <<0, 15, 59, 15>> >>,
                 << <<30, -5, 30, 40>> >>,
                 << <<20, 5, 40, 25>>, <<70, 3, 80, 9>> >>,
                 << <<45, 2, 12, 22>> >> },
     labels : { <<>>, << [x |-> 29, y |-> 15, label |-> <<"I", "A">>] >> },
     rivers : { <<>>, << << <<25, 10>>, <<35, 20>>, <<35, 28>> >> >> },
     mountains : { <<>>, << <<29, 15>>, <<59, 0>> >> },
     coasts : { <<>>, << << <<-3, 15>>, <<30, 15>> >> >> },
     lakes : { <<>>, << <<30, 15>>, <<31, 14>> >> }]

\* weather.GeocodeZip returned an error
GeocodeFailed ==
    [ok |-> FALSE, borders |-> <<>>, labels |-> <<>>, rivers |-> <<>>,
     mountains |-> <<>>, coasts |-> <<>>, lakes |-> <<>>]

InitOverlay ==
    /\ InitialModel
    /\ call \in [fn : {"DrawGeographicBoundaries"},
                 arg : [display : {BlankDisplay, DottedDisplay},
                        centerX : {RadarWidth \div 2},
                        centerY : {RadarHeight \div 2},
                        geo : Geographies \cup {GeocodeFailed}]]
    /\ result = NoResult

OverlayDrawn ==
    /\ call.fn = "DrawGeographicBoundaries"
    /\ ~result.done
    /\ result' = [done |-> TRUE,
                  value |-> DrawGeographicBoundaries(call.arg.display,
                                call.arg.centerX, call.arg.centerY, call.arg.geo)]
    /\ UNCHANGED <<session, call>>

NextOverlay == OverlayDrawn

SpecOverlay == InitOverlay /\ [][NextOverlay]_vars

\* C20: when DrawGeographicBoundaries returns, the centre cell of the grid
\* holds the centre marker whatever was drawn on it before; when geocoding
\* failed no other cell was modified.
C20_CentreMarkerOnTop ==
    (result.done /\ call.fn = "DrawGeographicBoundaries")
        => /\ result.value[call.arg.centerY][call.arg.centerX] = "*"
           /\ ~call.arg.geo.ok =>
                 \A y \in Rows, x \in Cols :
                    (x # call.arg.centerX \/ y # call.arg.centerY)
                        => result.value[y][x] = call.arg.display[y][x]

\* a border, a label and a lake drawn through the centre before the marker
C20_Witness ==
    /\ result.done
    /\ call.fn = "DrawGeographicBoundaries"
    /\ call.arg.geo.ok
    /\ call.arg.display = DottedDisplay
    /\ call.arg.geo.lakes # <<>>
    /\ result.value[15][28] = "-"
    /\ result.value[15][29] = "I"
    /\ result.value[15][30] = "*"
    /\ result.value[14][31] = "%"

\* The cells a layer covers: those it draws on an empty grid
Drawn(display) == {c \in Cols \X Rows : display[c[2]][c[1]] # Blank}

\* C21: on the empty grid the frame renderer passes in, every cell covered
\* both by a state border segment and by a river, mountain or coastline
\* (and by no label, lake shape or centre marker) ends with the glyph of the
\* river, mountain or coastline, not the border's; a cell covered by several
\* of river, mountain and coastline but no border keeps the first one drawn.
C21_FeaturesOverBorders ==
    (result.done /\ call.fn = "DrawGeographicBoundaries"
        /\ call.arg.geo.ok /\ call.arg.display = BlankDisplay)
        => LET geo == call.arg.geo
               riverCells == Drawn(DrawPaths(BlankDisplay, geo.rivers, 1, "~"))
               mountainCells == Drawn(DrawMountains(BlankDisplay, geo.mountains, 1))
               coastCells == Drawn(DrawPaths(BlankDisplay, geo.coasts, 1, "%"))
               \* labels, lake shapes and the centre marker are written last
               overwritten == Drawn(DrawLabels(BlankDisplay, geo.labels, 1))
                                 \cup Drawn(DrawLakes(BlankDisplay, geo.lakes, 1))
                                 \cup {<<call.arg.centerX, call.arg.centerY>>}
           IN \A c \in (riverCells \cup mountainCells \cup coastCells) \ overwritten :
                 result.value[c[2]][c[1]] =
                    IF c \in riverCells THEN "~"
                    ELSE IF c \in mountainCells THEN "^"
                    ELSE "%"

----------------------------------------------------------------------------

\* C22: a frame tick handled while isPaused is set, or the state is not
\* Displaying, or animationActive is false leaves currentFrame unchanged,
\* leaves animationActive false and arms no tick; a Space that un-pauses in
\* Displaying with animationActive false sets it and arms exactly one tick;
\* a Space that un-pauses while animationActive is still true arms none.
C22_TickDiesResumeRearms ==
    [][/\ ((isPaused \/ state # StateDisplaying \/ ~animationActive) /\ FrameTickMsg)
            => /\ currentFrame' = currentFrame
               /\ ~animationActive'
               /\ frameTicks' = frameTicks - 1
       /\ (state = StateDisplaying /\ isPaused /\ KeySpace)
            => /\ ~isPaused'
               /\ animationActive'
               /\ frameTicks' = IF animationActive THEN frameTicks
                                ELSE frameTicks + 1]_vars

\* playback resumed by Space at frame 0 with exactly one tick pending
C22_Witness ==
    /\ state = StateDisplaying
    /\ ~isPaused
    /\ resumeMark = 0
    /\ animationActive
    /\ frameTicks = 1
    /\ staleTicks = 0
    /\ TotalLoads = 0

----------------------------------------------------------------------------
(* Fair delivery: a tea.Tick timer expires after its finite duration and the
   runtime hands its message to Update; a load command returns its message
   once the HTTP requests of LoadData have answered or timed out *)

LoadDelivered == \E l \in LoadTags, env \in Envs : LoadedMsg(l, env) \/ ErrorMsg(l, env)

SpecFair ==
    /\ Init
    /\ [][Next]_vars
    /\ WF_vars(RefreshTickMsg)
    /\ WF_vars(FrameTickMsg)
    /\ WF_vars(LoadDelivered)

RefreshLoads ==
    {l \in LoadTags : l.origin = "refresh" /\ loads[l] > 0}

\* C23: a refresh tick handled in Displaying starts exactly one load for the
\* stored ZIP and arms the next refresh tick; a refresh tick handled in Input,
\* Loading or Error starts no load and arms no tick; a refresh tick is pending
\* in every Displaying state, and under fair timer delivery a Displaying
\* session without a background load in flight gets one started unless it
\* leaves Displaying.
C23_RefreshKeepsRunning ==
    /\ [][RefreshTickMsg
            => IF state = StateDisplaying
               THEN /\ loads' = StartLoad(zipCode, "refresh")
                    /\ refreshTicks' = refreshTicks
               ELSE /\ loads' = loads
                    /\ refreshTicks' = refreshTicks - 1]_vars
    /\ [](state = StateDisplaying => refreshTicks >= 1)
    /\ (state = StateDisplaying /\ RefreshLoads = {})
          ~> (state # StateDisplaying \/ RefreshLoads # {})

\* the second background load of a session, started after the first completed
C23_Witness ==
    /\ state = StateDisplaying
    /\ RefreshLoads # {}
    /\ refreshTicks = 2
    /\ TotalLoads = 1

----------------------------------------------------------------------------

\* The frame index after k presses of Right from index i of n frames
RECURSIVE Rights(_, _, _)
Rights(i, n, k) == IF k = 0 THEN i ELSE Rights((i + 1) % n, n, k - 1)

\* C24: in Displaying with n > 0 frames, Right or d moves currentFrame from
\* i to (i+1) mod n and Left or a to (i-1+n) mod n, paused or not; Left
\* after Right and Right after Left restore i, and so do n consecutive
\* Rights; outside Displaying the navigation keys leave currentFrame
\* unchanged.
C24_NavigationWraps ==
    /\ [][/\ (\E k \in {"right", "d"} : KeyRight(k))
               => IF state = StateDisplaying /\ Len(radar.Frames) > 0
                  THEN /\ currentFrame' = (currentFrame + 1) % Len(radar.Frames)
                       /\ PrevFrame' = currentFrame
                  ELSE currentFrame' = currentFrame
          /\ (\E k \in {"left", "a"} : KeyLeft(k))
               => IF state = StateDisplaying /\ Len(radar.Frames) > 0
                  THEN /\ currentFrame' =
                            (currentFrame - 1 + Len(radar.Frames)) % Len(radar.Frames)
                       /\ NextFrame' = currentFrame
                  ELSE currentFrame' = currentFrame]_vars
    /\ []((state = StateDisplaying /\ Len(radar.Frames) > 0)
            => /\ currentFrame \in 0..(Len(radar.Frames) - 1)
               /\ Rights(currentFrame, Len(radar.Frames), Len(radar.Frames))
                     = currentFrame)

\* a paused session moved to the last of three frames by a navigation key
C24_Witness ==
    /\ state = StateDisplaying
    /\ isPaused
    /\ Len(radar.Frames) = 3
    /\ currentFrame = 2
    /\ frameTicks = 0
    /\ pauseMark = -1

----------------------------------------------------------------------------

\* C25: every frame list delivered in a LoadedMsg has between 1 and
\* MaxFrames frames: the composite and the single-station path deliver the
\* frames supplied, cut off at MaxFrames, the single-station path after at
\* most 24 requests, and the synthetic path delivers exactly MaxFrames.
C25_FrameCountBounded ==
    /\ (result.done /\ call.fn = "LoadData" /\ result.value.type = "LoadedMsg")
          => LET n == Len(result.value.Radar.Frames)
                 \* the frames the providers can supply to the load
                 supplied == IF Len(CompositeYield(call.arg)) > 0
                             THEN Len(CompositeYield(call.arg))
                             ELSE Cardinality(call.arg.iowaOK)
             IN /\ n >= 1
                /\ n <= MaxFrames
                /\ n = IF supplied = 0 \/ supplied > MaxFrames
                       THEN MaxFrames ELSE supplied
                /\ ~result.value.Radar.IsRealData => n = MaxFrames
    /\ (result.done /\ call.fn = "fetchRealRadarData")
          => /\ Len(result.value.frames) <= MaxFrames
             /\ result.value.iowaRequests <= IowaAttempts

\* a manifest of 22 entries cut off at the 20th frame
C25_Witness ==
    /\ result.done
    /\ call.fn = "LoadData"
    /\ Len(call.arg.rvPast) > MaxFrames
    /\ result.value.type = "LoadedMsg"
    /\ Len(result.value.Radar.Frames) = MaxFrames
    /\ result.value.Radar.Frames[MaxFrames].Product = "Composite"

----------------------------------------------------------------------------
(* drawLine on its own: endpoints on, inside and beyond every edge *)

EndpointXs == {-3, 0, 7, RadarWidth - 1, RadarWidth + 4}

EndpointYs == {-2, 0, 11, RadarHeight - 1, RadarHeight + 5}

InitLine ==
    /\ InitialModel
    /\ call \in [fn : {"drawLine"},
                 arg : [display : {BlankDisplay, DottedDisplay},
                        x1 : EndpointXs, y1 : EndpointYs,
                        x2 : EndpointXs, y2 : EndpointYs,
                        char : {"-"}, skipExisting : BOOLEAN]]
    /\ result = NoResult

LineDrawn ==
    /\ call.fn = "drawLine"
    /\ ~result.done
    /\ result' = [done |-> TRUE,
                  value |-> drawLine(call.arg.display, call.arg.x1, call.arg.y1,
                                     call.arg.x2, call.arg.y2, call.arg.char,
                                     call.arg.skipExisting)]
    /\ UNCHANGED <<session, call>>

NextLine == LineDrawn

SpecLine == InitLine /\ [][NextLine]_vars

ClampX(x) == IF x < 0 THEN 0 ELSE IF x > RadarWidth - 1 THEN RadarWidth - 1 ELSE x

ClampY(y) == IF y < 0 THEN 0 ELSE IF y > RadarHeight - 1 THEN RadarHeight - 1 ELSE y

\* The bounding box of the two endpoints clamped to the grid
InClampedBox(a, x, y) ==
    /\ x >= min(ClampX(a.x1), ClampX(a.x2))
    /\ x <= max(ClampX(a.x1), ClampX(a.x2))
    /\ y >= min(ClampY(a.y1), ClampY(a.y2))
    /\ y <= max(ClampY(a.y1), ClampY(a.y2))

\* What a visit of the line leaves in a cell
Visited(a, x, y) ==
    IF a.skipExisting /\ a.display[y][x] # Blank THEN a.display[y][x] ELSE a.char

\* C26: drawLine returns for every pair of endpoints, on, inside or beyond
\* the edges of the grid, after at most one iteration per column or row
\* between the clamped endpoints; the grid keeps its shape and every cell it
\* changed lies inside the bounding box of the two endpoints clamped to the
\* grid and holds the line's glyph; when both endpoints lie beyond the same edge
\* nothing is drawn, otherwise both clamped endpoints are visited; with
\* skipExisting every cell that was not blank is unchanged.
C26_DrawLineClipped ==
    (result.done /\ call.fn = "drawLine")
        => LET a == call.arg
               out == result.value
               \* both endpoints lie beyond the same edge of the grid
               beyondSameEdge == \/ (a.x1 < 0 /\ a.x2 < 0)
                                 \/ (a.x1 >= RadarWidth /\ a.x2 >= RadarWidth)
                                 \/ (a.y1 < 0 /\ a.y2 < 0)
                                 \/ (a.y1 >= RadarHeight /\ a.y2 >= RadarHeight)
               \* the iterations of the loop between the clamped endpoints
               lineLength == max(abs(ClampX(a.x2) - ClampX(a.x1)),
                                 abs(ClampY(a.y2) - ClampY(a.y1))) + 1
           IN /\ DOMAIN out = Rows
              /\ \A y \in Rows : DOMAIN out[y] = Cols
              /\ \A y \in Rows, x \in Cols :
                    /\ out[y][x] # a.display[y][x]
                          => InClampedBox(a, x, y) /\ out[y][x] = a.char
                    /\ (a.skipExisting /\ a.display[y][x] # Blank)
                          => out[y][x] = a.display[y][x]
              /\ Cardinality({c \in Cols \X Rows : out[c[2]][c[1]] # a.display[c[2]][c[1]]})
                    <= lineLength
              /\ IF beyondSameEdge THEN out = a.display
                 ELSE /\ out[ClampY(a.y1)][ClampX(a.x1)]
                            = Visited(a, ClampX(a.x1), ClampY(a.y1))
                      /\ out[ClampY(a.y2)][ClampX(a.x2)]
                            = Visited(a, ClampX(a.x2), ClampY(a.y2))

\* a diagonal between two corners beyond the grid, drawn around the dots
C26_Witness ==
    /\ result.done
    /\ call.fn = "drawLine"
    /\ call.arg.skipExisting
    /\ call.arg.display = DottedDisplay
    /\ call.arg.x1 = -3 /\ call.arg.y1 = RadarHeight + 5
    /\ call.arg.x2 = RadarWidth + 4 /\ call.arg.y2 = -2
    /\ result.value[RadarHeight - 1][0] = "-"
    /\ result.value[0][RadarWidth - 1] = "-"
    /\ result.value[RadarHeight - 2][2] = "."

----------------------------------------------------------------------------

Playing == state = StateDisplaying /\ ~isPaused

\* C27: in every state that is Displaying and not paused, animationActive
\* is set and at least one frame tick is pending; animationActive is set
\* only in Displaying; under fair timer delivery a session that is
\* Displaying and un-paused at frame k moves on to another frame unless it
\* is paused or leaves Displaying first.
C27_PlaybackNeverStalls ==
    /\ [](Playing => (animationActive /\ frameTicks >= 1))
    /\ [](animationActive => state = StateDisplaying)
    /\ \A k \in UNION {{i - 1 : i \in DOMAIN LoadData(<<>>, env).Radar.Frames} :
                         env \in {e \in Envs : e.geocodeOK}} :
          (Playing /\ currentFrame = k) ~> (~Playing \/ currentFrame # k)

\* playback running on two timers at once, at a frame past the first
C27_Witness ==
    /\ Playing
    /\ animationActive
    /\ frameTicks = 2
    /\ currentFrame = 2
    /\ TotalLoads = 0

----------------------------------------------------------------------------

\* C28: at most one refresh tick is pending in every reachable state.
C28_SingleRefreshChain == refreshTicks <= 1

----------------------------------------------------------------------------
(* Two ZIP codes in one session: the runes of the second input are the speed
   keys and r, so the speed keys are pressed here together with the refresh
   timer; the frame timer, which reads neither ZIP code, is left pending *)

NextZip ==
    \/ \E k \in {"+", "="} : KeySpeedUp(k)
    \/ \E k \in {"-", "_"} : KeySlowDown(k)
    \/ \E ch \in OtherRunes : KeyRune(ch)
    \/ KeyEnter
    \/ KeyEsc
    \/ KeyR
    \/ \E l \in LoadTags, env \in Envs : LoadedMsg(l, env)
    \/ \E l \in LoadTags, env \in Envs : ErrorMsg(l, env)
    \/ RefreshTickMsg

SpecZip == Init /\ [][NextZip]_vars

\* C29: whenever the state is Displaying, the session shown was produced by
\* a load for the ZIP code currently stored in zipCode.
C29_SessionMatchesZip ==
    state = StateDisplaying => radar.Location = zipCode

----------------------------------------------------------------------------

\* C30: while the state is Loading, every step that changes the state,
\* currentFrame or the session is the delivery of a LoadedMsg or ErrorMsg:
\* no key and no frame or refresh tick does; a load is in flight in every
\* Loading state, and if every load delivers its message, a Loading state
\* is followed by Displaying or Error.
C30_LoadingEndsOnCompletion ==
    /\ [][(state = StateLoading
             /\ (state' # state \/ currentFrame' # currentFrame \/ radar' # radar))
            => LoadDelivered]_vars
    /\ [](state = StateLoading => TotalLoads >= 1)
    /\ (state = StateLoading) ~> (state \in {StateDisplaying, StateError})

\* both timers have fired during a reload that is still running
C30_Witness ==
    /\ state = StateLoading
    /\ radar.Frames # <<>>
    /\ frameTicks = 0
    /\ refreshTicks = 0
    /\ TotalLoads = 2

====
